---- MODULE Spec2Model ----
(***************************************************************************)
(* State-machine model of the AutoAttack orchestrator (src/autoattack.py): *)
(* the constructor, run_standard_evaluation, clean_accuracy,               *)
(* run_standard_evaluation_individual and cheap.                           *)
(*                                                                         *)
(* Tensors are modelled by what the orchestrator observes of them:         *)
(*  - a sample row is a record [src, by, pred]: src is the index of the    *)
(*    original sample it was derived from, by is "orig" or the attack      *)
(*    that produced it, pred is the class the model predicts for it        *)
(*    (get_logits followed by max(dim=1)[1]);                              *)
(*  - an index tensor is a record [shape, data];                           *)
(*  - a gathered batch is a record [rank, rows].                           *)
(* Python indices are 0-based and are kept 0-based here.                   *)
(***************************************************************************)
EXTENDS Integers, Sequences, FiniteSets, TLC

\* ------------------------------------------------------------------ bounds
MaxN == 3

SampleCounts == 1..MaxN
BatchSizes == 1..(MaxN + 1)

\* ------------------------------------------------------------- vocabulary
Labels == {"cat", "dog"}
OtherLabel(l) == IF l = "cat" THEN "dog" ELSE "cat"
LabelOf(i) == IF i % 2 = 0 THEN "cat" ELSE "dog"

KnownAttacks == {"apgd-ce", "apgd-dlr", "fab", "square", "apgd-t", "fab-t"}

\* attacks_to_run is a Python list or None; None is the one-element list below
\* (no attack is called "<None>").
NoneList == <<"<None>">>

\* Stage lists handed to the constructor (duplicate-free; one has an
\* identifier outside the vocabulary).
StageLists ==
    { <<"apgd-ce", "apgd-dlr">>,
      <<"fab-t", "square", "apgd-t">>,
      <<"fab", "bogus">> }

DataRank == 4

Min(a, b) == IF a < b THEN a ELSE b
CeilDiv(a, b) == (a + b - 1) \div b
Contains(lst, a) == \E k \in 1..Len(lst) : lst[k] = a
Range(s) == {s[k] : k \in 1..Len(s)}
EmptyMap == [k \in {} |-> k]

VARIABLES
    \* the orchestrator object
    attacks_to_run, plus, verbose, seed, norm, epsilon,
    apgd, fab, square, apgd_targeted,
    \* the sample set of the calls
    x_orig, y_orig,
    \* control
    pc, err, in_indiv,
    \* frame of run_standard_evaluation
    bs, robust_flags, robust_accuracy, x_adv, attack_pos, num_robust,
    n_batches, robust_lin_idcs, batch_idx, batch_datapoint_idcs, x, adv_curr,
    false_batch,
    \* frame of run_standard_evaluation_individual
    l_attacks, adv, verbose_indiv, indiv_pos, acc_indiv,
    \* the value returned by a top-level call of clean_accuracy
    ret_acc,
    \* history: the perturb calls of the current run, the flags after its
    \* clean pass and at the start of its current stage
    calls, flags0, stage_flags,
    \* history: the constructor's arguments, whether the object is as
    \* constructed, and the object's stage list and plus flag at the entry of
    \* the current top-level call
    ctor, fresh, entry,
    \* deterministic attacks: det says that an attack's output for a sample
    \* is a function of the attack and the sample; fate remembers the outputs
    \* seen so far, ref the first completed run
    det, fate, ref

objVars == <<attacks_to_run, plus, verbose, seed>>
adapterVars == <<apgd, fab, square, apgd_targeted>>
dataVars == <<x_orig, y_orig>>
cfgVars == <<norm, epsilon>>
runVars == <<bs, robust_flags, robust_accuracy, x_adv, attack_pos, num_robust,
             n_batches, robust_lin_idcs, batch_idx, batch_datapoint_idcs, x,
             adv_curr, false_batch, calls, flags0, stage_flags>>
indivVars == <<l_attacks, adv, verbose_indiv, indiv_pos, acc_indiv>>
detVars == <<det, fate, ref>>
histVars == <<ctor, fresh, entry>>
vars == <<objVars, cfgVars, ret_acc, adapterVars, dataVars, pc, err, in_indiv, runVars, indivVars,
          detVars, histVars>>

N == Cardinality(DOMAIN x_orig)
Idx == DOMAIN x_orig

\* ------------------------------------------------------------- the model
\* get_logits(x).max(dim=1)[1] of one row
Predict(row) == row.pred

\* --------------------------------------------------------- index tensors
EmptyIdcs == [shape |-> <<0>>, data |-> <<>>]
EmptyBatch == [rank |-> DataRank, rows |-> <<>>]

RECURSIVE NonzeroFrom(_, _, _)
NonzeroFrom(flags, i, n) ==
    IF i >= n THEN <<>>
    ELSE (IF flags[i] THEN <<i>> ELSE <<>>) \o NonzeroFrom(flags, i + 1, n)

\* torch.nonzero(flags, as_tuple=False): shape (k, 1), ascending indices
Nonzero(flags) ==
    LET d == NonzeroFrom(flags, 0, Cardinality(DOMAIN flags))
    IN [shape |-> <<Len(d), 1>>, data |-> d]

\* Tensor.squeeze_(): drops every dimension of size 1
Squeeze(t) == [shape |-> SelectSeq(t.shape, LAMBDA d : d # 1), data |-> t.data]

\* t[start:end] along the first dimension
Slice(t, start, end) ==
    [shape |-> <<end - start>> \o Tail(t.shape),
     data |-> SubSeq(t.data, start + 1, end)]

\* x_orig[idcs, :] and the unsqueeze of a rank-3 result
Gather(xs, idcs) ==
    LET r == Len(idcs.shape) + DataRank - 1
    IN [rank |-> IF r = 3 THEN r + 1 ELSE r,
        rows |-> [j \in 1..Len(idcs.data) |-> xs[idcs.data[j]]]]

\* y_orig[idcs]
GatherLabels(ys, idcs) ==
    [rank |-> Len(idcs.shape),
     data |-> [j \in 1..Len(idcs.data) |-> ys[idcs.data[j]]]]

CountTrue(flags) == Cardinality({i \in DOMAIN flags : flags[i]})

\* ------------------------------------------------ stage-list reconciliation
RECURSIVE RemoveFirst(_, _)
\* list.remove(a): removes the first occurrence
RemoveFirst(lst, a) ==
    IF lst = <<>> THEN <<>>
    ELSE IF Head(lst) = a THEN Tail(lst)
    ELSE <<Head(lst)>> \o RemoveFirst(Tail(lst), a)

ExtendIfAbsent(lst, a) == IF ~Contains(lst, a) THEN lst \o <<a>> ELSE lst
RemoveIfPresent(lst, a) == IF Contains(lst, a) THEN RemoveFirst(lst, a) ELSE lst

\* entry of run_standard_evaluation
Reconcile(lst, p) ==
    IF p THEN ExtendIfAbsent(ExtendIfAbsent(lst, "apgd-t"), "fab-t")
    ELSE RemoveIfPresent(RemoveIfPresent(lst, "apgd-t"), "fab-t")

\* entry of run_standard_evaluation_individual
ReconcileIndividual(lst, p) ==
    IF p THEN ExtendIfAbsent(ExtendIfAbsent(lst, "apgd-t"), "fab-t")
    ELSE lst

\* the constructor's attacks_to_run: list.extend returns None
ConstructedAttacks(lst, p) == IF ~p THEN lst ELSE NoneList

\* ------------------------------------------------------------ clean pass
\* mutant: the floor division of clean_accuracy in the initial pass
NumBatches_Floor(n, bsz) == n \div bsz

NumBatches(n, bsz) == CeilDiv(n, bsz)

\* ------------------------------------------------------------ stage loop
\* mutant: floor division, the last short sub-batch of a stage is dropped
StageBatches_Floor(nr, bsz) == nr \div bsz

\* n_batches of a stage
StageBatches(nr, bsz) == CeilDiv(nr, bsz)

\* mutant: the early break is missing
NoRobustLeft_Never(nr) == FALSE

\* `if num_robust == 0: break`
NoRobustLeft(nr) == nr = 0

\* mutant: the stage walks over all samples, not over the robust ones
RobustLinIdcs_All(flags, nr) ==
    [shape |-> <<Cardinality(DOMAIN flags)>>,
     data |-> [k \in 1..Cardinality(DOMAIN flags) |-> k - 1]]

\* robust_lin_idcs of a stage
RobustLinIdcs(flags, nr) ==
    IF nr > 1 THEN Squeeze(Nonzero(flags)) ELSE Nonzero(flags)

RECURSIVE CleanPassFrom(_, _, _, _, _)
CleanPassFrom(flags, xs, ys, bsz, batch) ==
    LET n == Cardinality(DOMAIN xs)
    IN IF batch >= NumBatches(n, bsz) THEN flags
       ELSE LET start_idx == batch * bsz
                end_idx == Min((batch + 1) * bsz, n)
                upd == [i \in DOMAIN flags |->
                           IF start_idx <= i /\ i < end_idx
                           THEN ys[i] = Predict(xs[i])
                           ELSE flags[i]]
            IN CleanPassFrom(upd, xs, ys, bsz, batch + 1)

InitialFlags(xs, ys, bsz) ==
    CleanPassFrom([i \in DOMAIN xs |-> FALSE], xs, ys, bsz, 0)

\* ------------------------------------------------------- clean_accuracy
RECURSIVE CleanAccFrom(_, _, _, _)
CleanAccFrom(xs, ys, bsz, counter) ==
    LET n == Cardinality(DOMAIN xs)
    IN IF counter >= n \div bsz THEN 0
       ELSE Cardinality({i \in DOMAIN xs :
                            /\ counter * bsz <= i
                            /\ i < Min((counter + 1) * bsz, n)
                            /\ Predict(xs[i]) = ys[i]})
            + CleanAccFrom(xs, ys, bsz, counter + 1)

\* raises: acc is still the float 0. when the loop body never ran, and a float
\* has no item()
clean_accuracy(xs, ys, bsz) ==
    LET n == Cardinality(DOMAIN xs)
    IN [raises |-> (n \div bsz) = 0,
        acc |-> <<CleanAccFrom(xs, ys, bsz, 0), n>>]

\* ------------------------------------------------------------- adapters
get_seed == IF seed = "None" THEN "time" ELSE seed

\* mutant: the loss is set on the 'apgd-ce' branch only
ApgdAfter_LossLeft(attack) ==
    IF attack = "apgd-ce" THEN [apgd EXCEPT !.loss = "ce", !.seed = get_seed]
    ELSE IF attack = "apgd-dlr" THEN [apgd EXCEPT !.seed = get_seed]
    ELSE apgd

ApgdAfter(attack) ==
    IF attack = "apgd-ce" THEN [apgd EXCEPT !.loss = "ce", !.seed = get_seed]
    ELSE IF attack = "apgd-dlr" THEN [apgd EXCEPT !.loss = "dlr", !.seed = get_seed]
    ELSE apgd

FabAfter(attack) ==
    IF attack = "fab" THEN [fab EXCEPT !.targeted = "False", !.seed = get_seed]
    ELSE IF attack = "fab-t" THEN [fab EXCEPT !.targeted = "True", !.seed = get_seed]
    ELSE fab

SquareAfter(attack) ==
    IF attack = "square" THEN [square EXCEPT !.seed = get_seed] ELSE square

ApgdTargetedAfter(attack) ==
    IF attack = "apgd-t" THEN [apgd_targeted EXCEPT !.seed = get_seed]
    ELSE apgd_targeted

\* the seed of the adapter that the stage invokes, as perturb finds it
InvokedSeed(attack) ==
    IF attack \in {"apgd-ce", "apgd-dlr"} THEN ApgdAfter(attack).seed
    ELSE IF attack \in {"fab", "fab-t"} THEN FabAfter(attack).seed
    ELSE IF attack = "square" THEN SquareAfter(attack).seed
    ELSE ApgdTargetedAfter(attack).seed

\* What perturb may return for the batch xb: one row per input row, derived
\* from that row, with any predicted class; with deterministic attacks an
\* output seen before is returned again.
PerturbOutputs(attack, xb) ==
    LET m == Len(xb.rows)
    IN { [j \in 1..m |-> [src |-> xb.rows[j].src, by |-> attack, pred |-> ls[j]]] :
            ls \in { l \in [1..m -> Labels] :
                        \A j \in 1..m :
                            det /\ fate[attack][xb.rows[j].src] # "?"
                                => l[j] = fate[attack][xb.rows[j].src] } }

FateAfter(attack, out) ==
    IF ~det THEN fate
    ELSE [fate EXCEPT ![attack] =
             [i \in DOMAIN fate[attack] |->
                 IF \E j \in 1..Len(out) : out[j].src = i
                 THEN (CHOOSE r \in Range(out) : r.src = i).pred
                 ELSE fate[attack][i]]]

\* ---------------------------------------------------------------- merge
\* mutant: the negation is missing
FalseBatch_NoNegation(yb, out) ==
    [j \in 1..Len(out) |-> yb.data[j] = Predict(out[j])]

\* ~y.eq(output.max(dim=1)[1])
FalseBatch(yb, out) == [j \in 1..Len(out) |-> yb.data[j] # Predict(out[j])]

\* batch_datapoint_idcs[false_batch]
NonRobust(idcs, fb) == {idcs.data[j] : j \in {k \in 1..Len(idcs.data) : fb[k]}}

\* mutant: the flags of the broken samples are not cleared
MergeFlags_Keep(flags, idcs, fb) == flags

\* mutant: the flags are rebuilt from the sub-batch (all true but the broken)
MergeFlags_Rebuild(flags, idcs, fb) ==
    [i \in DOMAIN flags |-> i \notin NonRobust(idcs, fb)]

\* robust_flags[non_robust_lin_idcs] = False
MergeFlags(flags, idcs, fb) ==
    [i \in DOMAIN flags |-> IF i \in NonRobust(idcs, fb) THEN FALSE ELSE flags[i]]

\* mutant: every row of the sub-batch is written back, broken or not
MergeAdv_AllRows(xa, idcs, fb, out) ==
    [i \in DOMAIN xa |->
        IF \E j \in 1..Len(idcs.data) : idcs.data[j] = i
        THEN out[CHOOSE j \in 1..Len(idcs.data) : idcs.data[j] = i]
        ELSE xa[i]]

\* x_adv[non_robust_lin_idcs] = adv_curr[false_batch]
MergeAdv(xa, idcs, fb, out) ==
    [i \in DOMAIN xa |->
        IF i \in NonRobust(idcs, fb)
        THEN out[CHOOSE j \in 1..Len(idcs.data) : idcs.data[j] = i /\ fb[j]]
        ELSE xa[i]]

\* ----------------------------------------------------------------- Init
OrigRow(i, correct) ==
    [src |-> i, by |-> "orig",
     pred |-> IF correct THEN LabelOf(i) ELSE OtherLabel(LabelOf(i))]

NoFate == [a \in KnownAttacks |-> [i \in 0..(MaxN - 1) |-> "?"]]

RunFrameInit ==
    /\ robust_flags = [i \in Idx |-> FALSE]
    /\ robust_accuracy = <<0, N>>
    /\ x_adv = x_orig
    /\ attack_pos = 1
    /\ num_robust = 0
    /\ n_batches = 0
    /\ robust_lin_idcs = EmptyIdcs
    /\ batch_idx = 0
    /\ batch_datapoint_idcs = EmptyIdcs
    /\ x = EmptyBatch
    /\ adv_curr = <<>>
    /\ false_batch = <<>>
    /\ calls = <<>>
    /\ flags0 = [i \in Idx |-> FALSE]
    /\ stage_flags = [i \in Idx |-> FALSE]

\* AutoAttack.__init__ and the sample set of the calls
NoEntry == [plus |-> FALSE, attacks |-> <<>>]

\* no accuracy computed yet
NoAcc == <<>>

Norms == {"Linf", "L2"}

Construct(lists, pluses, seeds, norms) ==
    /\ \E n \in SampleCounts : \E correct \in [0..(n - 1) -> BOOLEAN] :
          /\ x_orig = [i \in 0..(n - 1) |-> OrigRow(i, correct[i])]
          /\ y_orig = [i \in 0..(n - 1) |-> LabelOf(i)]
    /\ \E lst \in lists : \E p \in pluses :
          /\ attacks_to_run = ConstructedAttacks(lst, p)
          /\ plus = p
          /\ ctor = [attacks |-> lst, plus |-> p]
    /\ fresh = TRUE
    /\ entry = NoEntry
    /\ verbose \in BOOLEAN
    /\ seed \in seeds
    /\ norm \in norms
    /\ epsilon = "eps"
    /\ apgd = [n_restarts |-> 5, loss |-> "default", seed |-> seed]
    /\ fab = [n_restarts |-> 5, targeted |-> "default", seed |-> seed]
    /\ square = [n_queries |-> 5000, seed |-> seed]
    /\ apgd_targeted = [n_restarts |-> 1, seed |-> seed]
    /\ pc = "idle" /\ err = "" /\ in_indiv = FALSE
    /\ bs = 1
    /\ RunFrameInit
    /\ l_attacks = <<>> /\ adv = EmptyMap /\ verbose_indiv = FALSE /\ indiv_pos = 1
    /\ acc_indiv = NoAcc
    /\ ret_acc = NoAcc

Init ==
    /\ Construct(StageLists, BOOLEAN, {"None", "fixed"}, {"Linf"})
    /\ det = FALSE /\ fate = NoFate /\ ref = <<>>

\* ---------------------------------------------------------------- actions
Raise(e) == pc' = "raised" /\ err' = e

ResetRunFrame ==
    /\ robust_flags' = [i \in Idx |-> FALSE]
    /\ robust_accuracy' = <<0, N>>
    /\ x_adv' = x_orig
    /\ attack_pos' = 1
    /\ num_robust' = 0
    /\ n_batches' = 0
    /\ robust_lin_idcs' = EmptyIdcs
    /\ batch_idx' = 0
    /\ batch_datapoint_idcs' = EmptyIdcs
    /\ x' = EmptyBatch
    /\ adv_curr' = <<>>
    /\ false_batch' = <<>>
    /\ calls' = <<>>
    /\ flags0' = [i \in Idx |-> FALSE]
    /\ stage_flags' = [i \in Idx |-> FALSE]

\* run_standard_evaluation from its entry to the head of the stage loop, for
\* the stage list lst the object holds at the call
EnterRun(lst, bsz) ==
    IF lst = NoneList
    THEN /\ Raise("TypeError")
         /\ attacks_to_run' = lst
         /\ bs' = bsz
         /\ UNCHANGED <<robust_flags, robust_accuracy, x_adv, attack_pos,
                        num_robust, n_batches, robust_lin_idcs, batch_idx,
                        batch_datapoint_idcs, x, adv_curr, false_batch, calls,
                        flags0, stage_flags>>
    ELSE LET flags == InitialFlags(x_orig, y_orig, bsz)
         IN /\ attacks_to_run' = Reconcile(lst, plus)
            /\ pc' = "stage"
            /\ err' = err
            /\ bs' = bsz
            /\ robust_flags' = flags
            /\ robust_accuracy' = <<CountTrue(flags), N>>
            /\ x_adv' = x_orig
            /\ attack_pos' = 1
            /\ calls' = <<>>
            /\ flags0' = flags
            /\ stage_flags' = flags
            /\ UNCHANGED <<num_robust, n_batches, robust_lin_idcs, batch_idx,
                           batch_datapoint_idcs, x, adv_curr, false_batch>>

\* a top-level call of run_standard_evaluation
run_standard_evaluation ==
    /\ pc = "idle"
    /\ \E bsz \in BatchSizes : EnterRun(attacks_to_run, bsz)
    /\ in_indiv' = FALSE
    /\ fresh' = FALSE
    /\ entry' = [plus |-> plus, attacks |-> attacks_to_run]
    /\ UNCHANGED <<plus, verbose, seed, adapterVars, dataVars, cfgVars, ret_acc, indivVars, detVars,
                   ctor>>

\* the head of `for attack in self.attacks_to_run`
StageLoop ==
    /\ pc = "stage"
    /\ LET nr == CountTrue(robust_flags)
       IN IF attack_pos > Len(attacks_to_run)
          THEN /\ pc' = "final"
               /\ UNCHANGED <<num_robust, n_batches, robust_lin_idcs, batch_idx,
                              stage_flags>>
          ELSE IF NoRobustLeft(nr)
          THEN /\ pc' = "final"
               /\ num_robust' = nr
               /\ UNCHANGED <<n_batches, robust_lin_idcs, batch_idx, stage_flags>>
          ELSE /\ pc' = "batch"
               /\ num_robust' = nr
               /\ n_batches' = StageBatches(nr, bs)
               /\ robust_lin_idcs' = RobustLinIdcs(robust_flags, nr)
               /\ batch_idx' = 0
               /\ stage_flags' = robust_flags
    /\ UNCHANGED <<objVars, adapterVars, dataVars, cfgVars, ret_acc, err, in_indiv, indivVars, detVars,
                   histVars, bs, robust_flags, robust_accuracy, x_adv, attack_pos,
                   batch_datapoint_idcs, x, adv_curr, false_batch, calls, flags0>>

\* history: one perturb call, with the mode and the seed of the shared
\* adapters at the call and the rows it returned
Call(attack, idcs, xb, yb, out) ==
    [pos |-> attack_pos, attack |-> attack, idcs |-> idcs.data,
     flags |-> robust_flags, x_rank |-> xb.rank, y_rank |-> yb.rank,
     y |-> yb.data, loss |-> ApgdAfter(attack).loss,
     targeted |-> FabAfter(attack).targeted, seed |-> InvokedSeed(attack),
     out |-> out]

\* one iteration of `for batch_idx in range(n_batches)`
SubBatch ==
    /\ pc = "batch"
    /\ batch_idx < n_batches
    /\ LET attack == attacks_to_run[attack_pos]
           start_idx == batch_idx * bs
           end_idx == Min((batch_idx + 1) * bs, num_robust)
           idcs == Slice(robust_lin_idcs, start_idx, end_idx)
           xb == Gather(x_orig, idcs)
           yb == GatherLabels(y_orig, idcs)
       IN /\ batch_datapoint_idcs' = idcs
          /\ x' = xb
          /\ IF attack \notin KnownAttacks
             THEN /\ Raise("ValueError")
                  /\ UNCHANGED <<adapterVars, fate, adv_curr, false_batch,
                                 robust_flags, x_adv, calls, batch_idx>>
             ELSE /\ apgd' = ApgdAfter(attack)
                  /\ fab' = FabAfter(attack)
                  /\ square' = SquareAfter(attack)
                  /\ apgd_targeted' = ApgdTargetedAfter(attack)
                  /\ \/ \* the adapter or the model rejects a batch that is not
                        \* of the rank of the sample set
                        /\ xb.rank # DataRank
                        /\ Raise("RuntimeError")
                        /\ calls' = Append(calls, Call(attack, idcs, xb, yb, <<>>))
                        /\ UNCHANGED <<fate, adv_curr, false_batch, robust_flags,
                                       x_adv, batch_idx>>
                     \/ \E out \in PerturbOutputs(attack, xb) :
                          LET fb == FalseBatch(yb, out)
                          IN /\ adv_curr' = out
                             /\ fate' = FateAfter(attack, out)
                             /\ false_batch' = fb
                             /\ robust_flags' = MergeFlags(robust_flags, idcs, fb)
                             /\ x_adv' = MergeAdv(x_adv, idcs, fb, out)
                             /\ batch_idx' = batch_idx + 1
                             /\ calls' = Append(calls, Call(attack, idcs, xb, yb, out))
                             /\ UNCHANGED <<pc, err>>
    /\ UNCHANGED <<objVars, dataVars, cfgVars, ret_acc, in_indiv, indivVars, det, ref, histVars, bs,
                   num_robust, n_batches, robust_lin_idcs, flags0, stage_flags,
                   robust_accuracy, attack_pos>>

\* the end of a stage: the robust accuracy after it
StageEnd ==
    /\ pc = "batch"
    /\ batch_idx >= n_batches
    /\ pc' = "stage"
    /\ robust_accuracy' = <<CountTrue(robust_flags), N>>
    /\ attack_pos' = attack_pos + 1
    /\ UNCHANGED <<objVars, adapterVars, dataVars, cfgVars, ret_acc, err, in_indiv, indivVars, detVars,
                   histVars, bs, robust_flags, x_adv, num_robust, n_batches,
                   robust_lin_idcs, batch_idx, batch_datapoint_idcs, x, adv_curr,
                   false_batch, calls, flags0, stage_flags>>

\* `if verbose_indiv: acc_indiv = self.clean_accuracy(adv[c], y_orig, bs=bs)`
IndivAccuracy(v, xa, bsz) ==
    IF v THEN clean_accuracy(xa, y_orig, bsz)
    ELSE [raises |-> FALSE, acc |-> acc_indiv]

Put(m, k, v) == [c \in DOMAIN m \cup {k} |-> IF c = k THEN v ELSE m[c]]

\* the final check and `return x_adv`; inside the individual run, the rest of
\* the loop body of run_standard_evaluation_individual
Return ==
    /\ pc = "final"
    /\ IF ~in_indiv
       THEN /\ pc' = "idle"
            /\ bs' = 1
            /\ ref' = IF det /\ ref = <<>>
                      THEN <<[bs |-> bs, plan |-> attacks_to_run,
                              robust_flags |-> robust_flags, x_adv |-> x_adv]>>
                      ELSE ref
            /\ entry' = NoEntry
            /\ UNCHANGED <<err, indivVars>>
       ELSE /\ adv' = Put(adv, l_attacks[indiv_pos], x_adv)
            /\ ref' = ref
            /\ entry' = entry
            /\ bs' = bs
            /\ LET r == IndivAccuracy(verbose_indiv, x_adv, bs)
               IN IF r.raises
                  THEN /\ Raise("AttributeError")
                       /\ UNCHANGED <<indiv_pos, acc_indiv>>
                  ELSE /\ pc' = "indiv" /\ err' = err
                       /\ indiv_pos' = indiv_pos + 1
                       /\ acc_indiv' = r.acc
            /\ UNCHANGED <<l_attacks, verbose_indiv>>
    /\ ResetRunFrame
    /\ UNCHANGED <<objVars, adapterVars, dataVars, cfgVars, ret_acc, in_indiv, det, fate, ctor, fresh>>

\* a call of run_standard_evaluation_individual, up to the head of its loop
run_standard_evaluation_individual ==
    /\ pc = "idle"
    /\ \E bsz \in BatchSizes :
          /\ bs' = bsz
          /\ IF attacks_to_run = NoneList
             THEN /\ Raise("TypeError")
                  /\ IF plus
                     THEN UNCHANGED <<plus, verbose, verbose_indiv>>
                     ELSE plus' = FALSE /\ verbose_indiv' = verbose /\ verbose' = FALSE
                  /\ UNCHANGED <<attacks_to_run, l_attacks, adv, indiv_pos, acc_indiv>>
             ELSE LET lst == ReconcileIndividual(attacks_to_run, plus)
                  IN /\ attacks_to_run' = lst
                     /\ l_attacks' = lst
                     /\ adv' = EmptyMap
                     /\ plus' = FALSE
                     /\ verbose_indiv' = verbose
                     /\ verbose' = FALSE
                     /\ indiv_pos' = 1
                     /\ acc_indiv' = NoAcc
                     /\ pc' = "indiv"
                     /\ err' = err
    /\ in_indiv' = TRUE
    /\ fresh' = FALSE
    /\ entry' = [plus |-> plus, attacks |-> attacks_to_run]
    /\ UNCHANGED <<seed, adapterVars, dataVars, cfgVars, ret_acc, detVars, ctor, robust_flags,
                   robust_accuracy, x_adv, attack_pos, num_robust, n_batches,
                   robust_lin_idcs, batch_idx, batch_datapoint_idcs, x, adv_curr,
                   false_batch, calls, flags0, stage_flags>>

\* `for c in l_attacks`: the next single-stage run
IndividualNext ==
    /\ pc = "indiv"
    /\ indiv_pos <= Len(l_attacks)
    /\ EnterRun(<<l_attacks[indiv_pos]>>, bs)
    /\ UNCHANGED <<plus, verbose, seed, adapterVars, dataVars, cfgVars, ret_acc, in_indiv, indivVars,
                   detVars, histVars>>

\* `return adv`
IndividualReturn ==
    /\ pc = "indiv"
    /\ indiv_pos > Len(l_attacks)
    /\ pc' = "idle"
    /\ in_indiv' = FALSE
    /\ bs' = 1
    /\ l_attacks' = <<>> /\ adv' = EmptyMap /\ verbose_indiv' = FALSE /\ indiv_pos' = 1
    /\ acc_indiv' = NoAcc
    /\ entry' = NoEntry
    /\ UNCHANGED <<objVars, adapterVars, dataVars, cfgVars, ret_acc, err, detVars, ctor, fresh,
                   robust_flags,
                   robust_accuracy, x_adv, attack_pos, num_robust, n_batches,
                   robust_lin_idcs, batch_idx, batch_datapoint_idcs, x, adv_curr,
                   false_batch, calls, flags0, stage_flags>>

\* the caller assigns the plus attribute between two calls
SetPlus ==
    /\ pc = "idle"
    /\ plus' = ~plus
    /\ fresh' = FALSE
    /\ UNCHANGED <<attacks_to_run, verbose, seed, adapterVars, dataVars, cfgVars, ret_acc, pc, err,
                   in_indiv, runVars, indivVars, detVars, ctor, entry>>

\* mutant: the preset leaves the plus flag alone
cheap_KeepsPlus ==
    /\ pc = "idle"
    /\ apgd' = [apgd EXCEPT !.n_restarts = 1]
    /\ fab' = [fab EXCEPT !.n_restarts = 1]
    /\ apgd_targeted' = [apgd_targeted EXCEPT !.n_restarts = 1]
    /\ square' = [square EXCEPT !.n_queries = 1000]
    /\ fresh' = FALSE
    /\ UNCHANGED <<attacks_to_run, plus, verbose, seed, dataVars, cfgVars, ret_acc,
                   pc, err, in_indiv, runVars, indivVars, detVars, ctor, entry>>

cheap ==
    /\ pc = "idle"
    /\ apgd' = [apgd EXCEPT !.n_restarts = 1]
    /\ fab' = [fab EXCEPT !.n_restarts = 1]
    /\ apgd_targeted' = [apgd_targeted EXCEPT !.n_restarts = 1]
    /\ square' = [square EXCEPT !.n_queries = 1000]
    /\ plus' = FALSE
    /\ fresh' = FALSE
    /\ UNCHANGED <<attacks_to_run, verbose, seed, dataVars, cfgVars, ret_acc, pc, err, in_indiv,
                   runVars, indivVars, detVars, ctor, entry>>

\* a top-level call of clean_accuracy on the sample set, up to its return
call_clean_accuracy ==
    /\ pc = "idle"
    /\ \E bsz \in BatchSizes :
          LET r == clean_accuracy(x_orig, y_orig, bsz)
          IN /\ bs' = bsz
             /\ IF r.raises
                THEN Raise("AttributeError") /\ ret_acc' = ret_acc
                ELSE pc' = "acc" /\ err' = err /\ ret_acc' = r.acc
    /\ UNCHANGED <<objVars, cfgVars, adapterVars, dataVars, in_indiv, indivVars,
                   detVars, histVars, robust_flags, robust_accuracy, x_adv,
                   attack_pos, num_robust, n_batches, robust_lin_idcs, batch_idx,
                   batch_datapoint_idcs, x, adv_curr, false_batch, calls, flags0,
                   stage_flags>>

\* the caller has taken the value returned by clean_accuracy
AccReturn ==
    /\ pc = "acc"
    /\ pc' = "idle"
    /\ bs' = 1
    /\ ret_acc' = NoAcc
    /\ UNCHANGED <<objVars, cfgVars, adapterVars, dataVars, err, in_indiv,
                   indivVars, detVars, histVars, robust_flags, robust_accuracy,
                   x_adv, attack_pos, num_robust, n_batches, robust_lin_idcs,
                   batch_idx, batch_datapoint_idcs, x, adv_curr, false_batch,
                   calls, flags0, stage_flags>>

Next ==
    \/ run_standard_evaluation
    \/ StageLoop
    \/ SubBatch
    \/ StageEnd
    \/ Return
    \/ run_standard_evaluation_individual
    \/ IndividualNext
    \/ IndividualReturn
    \/ SetPlus
    \/ call_clean_accuracy
    \/ AccReturn

Spec == Init /\ [][Next]_vars

\* Deterministic attacks and two or more runs of one object on one sample set:
\* the first completed run is kept in ref.
InitDet ==
    /\ Construct(StageLists, {FALSE}, {"fixed"}, {"Linf"})
    /\ det = TRUE /\ fate = NoFate /\ ref = <<>>

NextDet ==
    \/ run_standard_evaluation
    \/ StageLoop
    \/ SubBatch
    \/ StageEnd
    \/ Return

SpecDet == InitDet /\ [][NextDet]_vars

\* Deterministic attacks, combined and individual runs of one object on one
\* sample set.
NextDetIndiv ==
    \/ NextDet
    \/ run_standard_evaluation_individual
    \/ IndividualNext
    \/ IndividualReturn

SpecDetIndiv == InitDet /\ [][NextDetIndiv]_vars

\* The cheap preset between runs of one object, with both norms.
InitCheap ==
    /\ Construct(StageLists, BOOLEAN, {"fixed"}, Norms)
    /\ det = FALSE /\ fate = NoFate /\ ref = <<>>

NextCheap ==
    \/ cheap
    \/ SetPlus
    \/ run_standard_evaluation
    \/ StageLoop
    \/ SubBatch
    \/ StageEnd
    \/ Return

SpecCheap == InitCheap /\ [][NextCheap]_vars

\* Runs of a stage list in another order than the default, with both modes of
\* each shared adapter, repeated with plus switched on and off between runs.
ModeLists == {<<"fab-t", "fab", "apgd-dlr", "apgd-ce">>}

InitModes ==
    /\ Construct(ModeLists, {FALSE}, {"None", "fixed"}, {"Linf"})
    /\ det = FALSE /\ fate = NoFate /\ ref = <<>>

NextModes ==
    \/ SetPlus
    \/ run_standard_evaluation
    \/ StageLoop
    \/ SubBatch
    \/ StageEnd
    \/ Return

SpecModes == InitModes /\ [][NextModes]_vars

\* ================================================================ claims
InRun == pc \in {"stage", "batch", "final"}
CleanCorrect(i) == Predict(x_orig[i]) = y_orig[i]
CleanCorrectSet == {i \in Idx : CleanCorrect(i)}
Targeted == {"apgd-t", "fab-t"}

RECURSIVE Ascending(_)
Ascending(S) ==
    IF S = {} THEN <<>>
    ELSE LET m == CHOOSE m \in S : \A o \in S : m <= o
         IN <<m>> \o Ascending(S \ {m})

CallsOf(p) == SelectSeq(calls, LAMBDA c : c.pos = p)
StagePositions == {calls[k].pos : k \in 1..Len(calls)}

RECURSIVE FlatIdcs(_)
FlatIdcs(cs) == IF cs = <<>> THEN <<>> ELSE Head(cs).idcs \o FlatIdcs(Tail(cs))

\* C1: within one run, after the initial clean pass, no step sets a robust
\* flag that is false back to true.
C1_Monotonic ==
    [][InRun => \A i \in Idx : ~robust_flags[i] => ~robust_flags'[i]]_vars

\* a sample broken by an earlier stage is still false after a sub-batch of a
\* later stage was merged
C1_Witness ==
    /\ pc = "batch" /\ attack_pos >= 2 /\ batch_idx >= 1
    /\ \E i \in Idx : flags0[i] /\ ~stage_flags[i] /\ ~robust_flags[i]

\* C2: in every state, every sample whose robust flag is true has its
\* adversarial example equal to its original input.
C2_Consistency ==
    \A i \in Idx : robust_flags[i] => x_adv[i] = x_orig[i]

C2_Witness ==
    /\ pc = "final" /\ Len(calls) >= 2
    /\ \E i \in Idx : robust_flags[i]
    /\ \E j \in Idx : ~robust_flags[j] /\ x_adv[j] # x_orig[j]

\* C3: the perturb calls of a stage get consecutive slices (size bs, the last
\* one possibly shorter) of the ascending list of the indices that were robust
\* at the start of the stage; a finished stage has attacked each of them once;
\* every index passed to perturb has its flag true at the call.
C3_OnlyRobustAttacked ==
    \A p \in StagePositions :
        LET cs == CallsOf(p)
            active == Ascending({i \in Idx : cs[1].flags[i]})
            flat == FlatIdcs(cs)
        IN /\ Len(flat) <= Len(active)
           /\ flat = SubSeq(active, 1, Len(flat))
           /\ \A k \in 1..Len(cs) :
                 /\ Len(cs[k].idcs) \in 1..bs
                 /\ k < Len(cs) => Len(cs[k].idcs) = bs
                 /\ \A i \in Range(cs[k].idcs) : cs[k].flags[i]
           /\ p < attack_pos => flat = active

\* a finished later stage of two or more sub-batches, entered with a sample
\* already broken
C3_Witness ==
    \E p \in StagePositions :
        /\ p >= 2 /\ p < attack_pos
        /\ Len(CallsOf(p)) >= 2
        /\ \E i \in Idx : flags0[i] /\ ~CallsOf(p)[1].flags[i]

\* C4: the merge of a sub-batch: a misclassified perturbed row j clears the flag
\* of idx[j] and becomes x_adv[idx[j]]; a row still classified correctly
\* leaves both unchanged; no index outside the sub-batch changes; row j is
\* derived from sample idx[j].
C4_Merge ==
    [][(pc = "batch" /\ batch_idx' = batch_idx + 1) =>
          LET idcs == batch_datapoint_idcs'.data
              out == adv_curr'
          IN /\ Len(out) = Len(idcs)
             /\ \A j \in 1..Len(idcs) :
                   LET i == idcs[j]
                   IN /\ out[j].src = i
                      /\ IF Predict(out[j]) # y_orig[i]
                         THEN ~robust_flags'[i] /\ x_adv'[i] = out[j]
                         ELSE /\ robust_flags'[i] = robust_flags[i]
                              /\ x_adv'[i] = x_adv[i]
             /\ \A i \in Idx \ Range(idcs) :
                   /\ robust_flags'[i] = robust_flags[i]
                   /\ x_adv'[i] = x_adv[i]]_vars

\* a merged sub-batch with a broken and an unbroken row, beside a sample that
\* was not in it
C4_Witness ==
    /\ pc = "batch" /\ batch_idx >= 1
    /\ \E j, k \in 1..Len(false_batch) : false_batch[j] /\ ~false_batch[k]
    /\ Len(false_batch) < N

\* C5: after the initial pass the flags are exactly the clean correctness, the
\* baseline accuracy is (number of clean-correct samples)/N, and a sample
\* misclassified on the clean input keeps flag false and x_adv = x_orig
\* through the run.
C5_Initialization ==
    InRun =>
        /\ flags0 = [i \in Idx |-> CleanCorrect(i)]
        /\ (pc = "stage" /\ attack_pos = 1) =>
              /\ robust_flags = [i \in Idx |-> CleanCorrect(i)]
              /\ robust_accuracy = <<Cardinality(CleanCorrectSet), N>>
        /\ \A i \in Idx : ~CleanCorrect(i) => ~robust_flags[i] /\ x_adv[i] = x_orig[i]

\* the end of a run with N not a multiple of bs, N > bs, a clean-misclassified
\* sample and a perturb call
C5_Witness ==
    /\ pc = "final" /\ N % bs # 0 /\ bs < N /\ Len(calls) >= 1
    /\ \E i \in Idx : ~CleanCorrect(i)
    /\ \E i \in Idx : CleanCorrect(i) /\ i >= bs

\* C6: a stage that is about to start with no flag true is not run: the run
\* goes to its final state with no perturb call and no adapter touched, and
\* from the final state it returns without another stage.
C6_EarlyTermination ==
    [][/\ (pc = "stage" /\ CountTrue(robust_flags) = 0) =>
             (pc' = "final" /\ calls' = calls /\ UNCHANGED adapterVars)
       /\ pc = "final" =>
             (pc' \in {"idle", "indiv", "raised"} /\ UNCHANGED adapterVars)]_vars

\* all samples were broken before the last stage of the plan, which was skipped
C6_Witness ==
    /\ pc = "final" /\ attack_pos <= Len(attacks_to_run)
    /\ Len(calls) >= 1
    /\ \A k \in 1..Len(calls) : calls[k].pos < attack_pos

\* C7: with deterministic attacks, a run that ends normally has the flags and
\* the adversarial examples of the first completed run of the same plan on
\* the same samples, whatever the two batch sizes.
C7_BatchSizeIndependent ==
    (pc = "final" /\ ref # <<>> /\ ref[1].plan = attacks_to_run) =>
        /\ robust_flags = ref[1].robust_flags
        /\ x_adv = ref[1].x_adv

\* one run with a single oversized batch, the other with a batch size below
\* the size of the active set, and a sample broken
C7_Witness ==
    /\ pc = "final" /\ ref # <<>> /\ ref[1].plan = attacks_to_run
    /\ ref[1].bs >= N /\ bs < CountTrue(flags0)
    /\ \E i \in Idx : x_adv[i] # x_orig[i]
    /\ \E i \in Idx : robust_flags[i]

\* the stage list the claim C8 expects for a call entered with list lst and
\* plus flag p
ExpectedPlan(lst, p) ==
    IF p
    THEN lst \o (IF Contains(lst, "apgd-t") THEN <<>> ELSE <<"apgd-t">>)
             \o (IF Contains(lst, "fab-t") THEN <<>> ELSE <<"fab-t">>)
    ELSE SelectSeq(lst, LAMBDA a : a \notin Targeted)

\* C8: the stage list used by a top-level run (attacks_to_run of
\* run_standard_evaluation, l_attacks of run_standard_evaluation_individual)
\* is the list at the entry with the two targeted stages appended when plus
\* was on at the entry, and with them removed when it was off.
C8_Claim ==
    /\ (InRun /\ ~in_indiv) => attacks_to_run = ExpectedPlan(entry.attacks, entry.plus)
    /\ (in_indiv /\ pc \in {"indiv", "stage", "batch", "final"}) =>
          l_attacks = ExpectedPlan(entry.attacks, entry.plus)

\* C9: an orchestrator constructed with plus=True holds the supplied stages
\* followed by 'apgd-t' and 'fab-t', and its calls do not fail on the stage
\* list.
C9_Claim ==
    ctor.plus =>
        /\ fresh => attacks_to_run = ctor.attacks \o <<"apgd-t", "fab-t">>
        /\ err # "TypeError"

\* C10: in the individual run, the single-stage run of every attack c of the
\* plan invokes c's adapter on exactly the samples that are correct on the
\* clean input, and adv has an entry for every attack whose run is over.
C10_Claim ==
    /\ (pc = "final" /\ in_indiv) =>
          UNION {Range(calls[k].idcs) :
                    k \in {h \in 1..Len(calls) :
                              calls[h].attack = l_attacks[indiv_pos]}}
             = CleanCorrectSet
    /\ (pc = "indiv") =>
          DOMAIN adv = {l_attacks[k] : k \in 1..(indiv_pos - 1)}

\* C11 (original statement, refuted): with deterministic attacks, when a
\* combined run with the one-stage plan <<c>> and the individual run's entry
\* for c used the same samples and batch size, the individual run yields the
\* adversarial examples of the combined run and reports its robust accuracy.
Compared(c) == in_indiv /\ ref # <<>> /\ ref[1].plan = <<c>> /\ ref[1].bs = bs

C11_Claim ==
    \A c \in DOMAIN adv :
        Compared(c) =>
            /\ adv[c] = ref[1].x_adv
            /\ ~(pc = "raised" /\ err = "AttributeError" /\ c = l_attacks[indiv_pos])
            /\ (pc = "indiv" /\ verbose_indiv /\ c = l_attacks[indiv_pos - 1])
                  => acc_indiv = <<CountTrue(ref[1].robust_flags), N>>

\* the six attack identifiers of the specification
Vocabulary == {"apgd-ce", "apgd-dlr", "fab", "square", "apgd-t", "fab-t"}

\* C12 (original statement, refuted): a run whose stage list holds an
\* identifier outside the vocabulary never skips that stage and never reaches
\* its normal end, whatever the robust flags are.
C12_Claim ==
    (InRun /\ \E k \in 1..Len(attacks_to_run) : attacks_to_run[k] \notin Vocabulary)
        => pc # "final"

\* C13 (original statement, refuted): verbosity does not change the outcome
\* of a run: the only place where the code reads the verbosity it was called
\* with, the step after each single-stage run of the individual run, ends
\* the same way (continues or raises the same error) with verbosity on and
\* with verbosity off.
C13_Claim ==
    (pc = "final" /\ in_indiv)
        => IndivAccuracy(TRUE, x_adv, bs).raises = IndivAccuracy(FALSE, x_adv, bs).raises

\* C14 (original statement, refuted): a top-level call of clean_accuracy
\* never raises, and the value it returns is (number of correctly classified
\* samples of the whole set) / N, the baseline that the initial pass of
\* run_standard_evaluation computes on the same samples and batch size.
C14_Claim ==
    /\ ~(pc = "raised" /\ err = "AttributeError" /\ ~in_indiv)
    /\ pc = "acc"
          => /\ ret_acc = <<Cardinality(CleanCorrectSet), N>>
             /\ ret_acc = <<CountTrue(InitialFlags(x_orig, y_orig, bs)), N>>

\* C15 (original statement, refuted): cheap() changes adapter configuration
\* only: the plus flag, the stage list, verbosity, seed, norm and epsilon are
\* as before the call, and so is the stage plan of the next run.
C15_Claim ==
    [][cheap => /\ plus' = plus
                /\ attacks_to_run' = attacks_to_run
                /\ verbose' = verbose /\ seed' = seed
                /\ norm' = norm /\ epsilon' = epsilon
                /\ attacks_to_run # NoneList
                      => Reconcile(attacks_to_run', plus') = Reconcile(attacks_to_run, plus)]_vars

\* C15 (amended): cheap() sets the restart counts of apgd, fab and
\* apgd_targeted to 1, the query budget of square to 1000 and the plus flag
\* to False; it leaves the stage list, verbosity, seed, norm and epsilon as
\* they were, so the stage plan of the next run is the one of the same stage
\* list with plus off.
C15_CheapFrame ==
    [][cheap => /\ apgd'.n_restarts = 1 /\ fab'.n_restarts = 1
                /\ apgd_targeted'.n_restarts = 1 /\ square'.n_queries = 1000
                /\ apgd'.loss = apgd.loss /\ fab'.targeted = fab.targeted
                /\ plus' = FALSE
                /\ attacks_to_run' = attacks_to_run
                /\ verbose' = verbose /\ seed' = seed
                /\ norm' = norm /\ epsilon' = epsilon
                /\ attacks_to_run # NoneList
                      => Reconcile(attacks_to_run', plus') = Reconcile(attacks_to_run, FALSE)]_vars

\* after cheap(): the adapters are cheap, plus is off, and the stage list
\* still holds the targeted stages that an earlier run with plus on appended
C15_Witness ==
    /\ pc = "idle"
    /\ apgd.n_restarts = 1 /\ fab.n_restarts = 1
    /\ apgd_targeted.n_restarts = 1 /\ square.n_queries = 1000
    /\ ~plus /\ ~ctor.plus
    /\ attacks_to_run = <<"apgd-ce", "apgd-dlr", "apgd-t", "fab-t">>
    /\ apgd.loss = "dlr"
    /\ norm = "L2"

\* C16: at every perturb call the shared adapters are in the mode of the
\* stage that calls: apgd.loss is 'ce' in an 'apgd-ce' call and 'dlr' in an
\* 'apgd-dlr' call, fab.targeted is False in a 'fab' call and True in a
\* 'fab-t' call, and the seed of the invoked adapter is the one assigned just
\* before the call: the configured seed, or the wall clock if none is
\* configured.
C16_ModeSwitch ==
    \A k \in 1..Len(calls) :
        LET c == calls[k]
        IN /\ c.attack = "apgd-ce" => c.loss = "ce"
           /\ c.attack = "apgd-dlr" => c.loss = "dlr"
           /\ c.attack = "fab" => c.targeted = "False"
           /\ c.attack = "fab-t" => c.targeted = "True"
           /\ c.seed = IF seed = "None" THEN "time" ELSE seed
           /\ k = Len(calls) /\ pc = "batch"
                 => /\ c.attack \in {"apgd-ce", "apgd-dlr"}
                       => apgd.loss = c.loss /\ apgd.seed = c.seed
                    /\ c.attack \in {"fab", "fab-t"}
                       => fab.targeted = c.targeted /\ fab.seed = c.seed
                    /\ c.attack = "square" => square.seed = c.seed
                    /\ c.attack = "apgd-t" => apgd_targeted.seed = c.seed

\* one run called 'fab-t', then 'fab', then 'apgd-dlr', then 'apgd-ce' on the
\* shared adapters, with no seed configured
C16_Witness ==
    /\ seed = "None"
    /\ \E k1, k2, k3, k4 \in 1..Len(calls) :
          /\ k1 < k2 /\ k2 < k3 /\ k3 < k4
          /\ calls[k1].attack = "fab-t" /\ calls[k1].targeted = "True"
          /\ calls[k2].attack = "fab" /\ calls[k2].targeted = "False"
          /\ calls[k3].attack = "apgd-dlr" /\ calls[k3].loss = "dlr"
          /\ calls[k4].attack = "apgd-ce" /\ calls[k4].loss = "ce"
          /\ calls[k4].seed = "time"

\* C17 (original statement, refuted): the sample batch of every perturb call
\* has the rank of the sample set (4), one row per sub-batch index, and the
\* label batch has rank 1, also when one robust sample is left at the start
\* of the stage.
C17_Claim ==
    \A k \in 1..Len(calls) :
        /\ calls[k].x_rank = DataRank
        /\ calls[k].y_rank = 1
        /\ Len(calls[k].y) = Len(calls[k].idcs)

\* C18 (original statement, refuted): when run_standard_evaluation_individual
\* returns, the verbosity, the plus flag and the stage list of the object are
\* what they were at the start of the call (the stage list after the entry
\* reconciliation).
C18_Claim ==
    [][(pc = "indiv" /\ pc' = "idle")
          => /\ verbose' = verbose_indiv
             /\ plus' = entry.plus
             /\ attacks_to_run' = l_attacks]_vars

\* perturb call k returned a misclassified row for sample i
Hit(k, i) ==
    \E j \in 1..Len(calls[k].out) :
        calls[k].idcs[j] = i /\ Predict(calls[k].out[j]) # y_orig[i]

HitRow(k, i) ==
    calls[k].out[CHOOSE j \in 1..Len(calls[k].out) : calls[k].idcs[j] = i]

\* C19: within one run each adversarial example is written at most once: at
\* most one perturb call returned a misclassified row for sample i; x_adv[i]
\* is that row, from the first stage in plan order that broke i; no later
\* call attacks i again; and x_adv[i] is the original sample if no call
\* broke i.
C19_WrittenOnce ==
    InRun =>
        \A i \in Idx :
            LET H == {k \in 1..Len(calls) : Hit(k, i)}
            IN /\ Cardinality(H) <= 1
               /\ H = {} => x_adv[i] = x_orig[i]
               /\ \A k \in H :
                     /\ x_adv[i] = HitRow(k, i)
                     /\ x_adv[i].by = attacks_to_run[calls[k].pos]
                     /\ \A k2 \in 1..Len(calls) :
                           i \in Range(calls[k2].idcs) => k2 <= k

\* the first stage broke one sample, a later stage attacked and broke another
\* one, and the first keeps the row of the first stage
C19_Witness ==
    /\ pc = "batch"
    /\ \E i, i2 \in Idx : \E k, k2 \in 1..Len(calls) :
          /\ i # i2 /\ k < k2
          /\ Hit(k, i) /\ calls[k].pos = 1
          /\ Hit(k2, i2) /\ calls[k2].pos >= 2
          /\ i2 \in Range(calls[k].idcs)
          /\ x_adv[i] = HitRow(k, i)
          /\ x_adv[i2] = HitRow(k2, i2)

====
